---- MODULE Spec2Model ----
(***************************************************************************)
(* Flight-time reconstruction and delay classification of                  *)
(* rksimapapp.py (load_data): STD/RAM/ATD clock times are resolved to      *)
(* timestamps, ramp delay / taxi time / total delay are derived, monthly   *)
(* taxi-time statistics are aggregated and merged back, every flight is    *)
(* classified, and the classified table is joined to the stand table.      *)
(*                                                                         *)
(* A DataFrame is a sequence of rows; a row is a record whose fields are   *)
(* the frame's columns.  A cell of text "HH:MM" is the record              *)
(* [h |-> HH, m |-> MM], a cell of text "YYMMDD" is [yy, mm, dd], any      *)
(* other text is [text |-> ...], a numeric cell is [num |-> v] and an      *)
(* empty cell is NaN.  A timestamp is [year, month, day, hour, minute].    *)
(***************************************************************************)
EXTENDS Integers, Sequences, FiniteSets, TLC

VARIABLES
    pc,         \* the statement of load_data that runs next
    raw,        \* the concatenated RAMP rows as read (line 34)
    df_zone,    \* rksi_stands_zoned.csv (line 21)
    df_flight,  \* the flight table, growing column by column
    res,        \* the rows the running DataFrame.apply has produced so far
    stats,      \* the monthly taxi-time table (line 122), {} before it
    df_merged,  \* the table load_data returns (line 144), <<>> before it
    df_ramp     \* the RAMP table of snowdelay_app.py (line 79)

vars == <<pc, raw, df_zone, df_flight, res, stats, df_merged, df_ramp>>

----------------------------------------------------------------------------
\* Bounds of the model

MaxRows == 2

----------------------------------------------------------------------------
\* Program constants

EarlyHour == 4
LateHour == 20
NormalTotalDelay == 15
RampDelayMin == 15
DefaultLimit == 30
Century == 2000

----------------------------------------------------------------------------
\* Missing values

NaT == [nat |-> TRUE]
NaN == [nan |-> TRUE]

isna(x) == x = NaT \/ x = NaN
notna(x) == ~isna(x)

----------------------------------------------------------------------------
\* Calendar arithmetic of datetime / Timestamp

IsLeap(y) == (y % 4 = 0 /\ y % 100 # 0) \/ y % 400 = 0

DaysInMonth(y, m) ==
    IF m = 2 THEN (IF IsLeap(y) THEN 29 ELSE 28)
    ELSE IF m \in {4, 6, 9, 11} THEN 30 ELSE 31

RECURSIVE DaysBeforeMonth(_, _)
DaysBeforeMonth(y, m) ==
    IF m = 1 THEN 0 ELSE DaysBeforeMonth(y, m - 1) + DaysInMonth(y, m - 1)

DaysBeforeYear(y) ==
    365 * (y - 1) + ((y - 1) \div 4) - ((y - 1) \div 100) + ((y - 1) \div 400)

\* date.toordinal()
toordinal(ts) == DaysBeforeYear(ts.year) + DaysBeforeMonth(ts.year, ts.month) + ts.day

\* minutes since the start of day 0: (a - b).total_seconds() / 60 is
\* TotalMinutes(a) - TotalMinutes(b)
TotalMinutes(ts) == (toordinal(ts) * 24 + ts.hour) * 60 + ts.minute

\* ts + timedelta(days=1)
PlusDay(ts) ==
    IF ts.day < DaysInMonth(ts.year, ts.month)
    THEN [ts EXCEPT !.day = ts.day + 1]
    ELSE IF ts.month < 12
    THEN [ts EXCEPT !.month = ts.month + 1, !.day = 1]
    ELSE [ts EXCEPT !.year = ts.year + 1, !.month = 1, !.day = 1]

\* ts - timedelta(days=1)
MinusDay(ts) ==
    IF ts.day > 1
    THEN [ts EXCEPT !.day = ts.day - 1]
    ELSE IF ts.month > 1
    THEN [ts EXCEPT !.month = ts.month - 1,
                    !.day = DaysInMonth(ts.year, ts.month - 1)]
    ELSE [ts EXCEPT !.year = ts.year - 1, !.month = 12, !.day = 31]

\* Timestamp.replace(hour=h, minute=m)
replace(ts, h, m) == [ts EXCEPT !.hour = h, !.minute = m]

----------------------------------------------------------------------------
\* Parsing of cells

\* the text matches %H:%M
IsClock(tok) ==
    /\ DOMAIN tok = {"h", "m"}
    /\ tok.h \in 0..23
    /\ tok.m \in 0..59

\* "20" + text matches %Y%m%d
IsYmd(tok) ==
    /\ DOMAIN tok = {"yy", "mm", "dd"}
    /\ tok.yy \in 0..99
    /\ tok.mm \in 1..12
    /\ tok.dd \in 1..DaysInMonth(Century + tok.yy, tok.mm)

parse_dt(date_str, time_str) ==
    IF IsYmd(date_str) /\ IsClock(time_str)
    THEN [year |-> Century + date_str.yy, month |-> date_str.mm,
          day |-> date_str.dd, hour |-> time_str.h, minute |-> time_str.m]
    ELSE NaT

\* float(x) succeeds
IsFloat(tok) == DOMAIN tok = {"num"}

----------------------------------------------------------------------------
\* calc_all_times

\* a < b on timestamps
Before(a, b) == TotalMinutes(a) < TotalMinutes(b)

\* ram_dt with the early-hour test off by one (<= 4)
ram_dt_inclusive(row) ==
    LET std == row.STD_Full
    IN  IF "RAM" \in DOMAIN row /\ notna(row.RAM) /\ IsClock(row.RAM)
        THEN LET cand == replace(std, row.RAM.h, row.RAM.m)
             IN  IF std.hour <= EarlyHour /\ cand.hour > LateHour
                 THEN MinusDay(cand)
                 ELSE IF std.hour > LateHour /\ cand.hour < EarlyHour
                 THEN PlusDay(cand)
                 ELSE cand
        ELSE NaT

\* lines 70-77: the ramp-out time on the scheduled date, moved across
\* midnight when the two clock times lie on opposite sides of it
ram_dt(row) ==
    LET std == row.STD_Full
    IN  IF "RAM" \in DOMAIN row /\ notna(row.RAM) /\ IsClock(row.RAM)
        THEN LET cand == replace(std, row.RAM.h, row.RAM.m)
             IN  IF std.hour < EarlyHour /\ cand.hour > LateHour
                 THEN MinusDay(cand)
                 ELSE IF std.hour > LateHour /\ cand.hour < EarlyHour
                 THEN PlusDay(cand)
                 ELSE cand
        ELSE NaT

\* base_dt that always takes the scheduled time
base_dt_scheduled(row, ram) == row.STD_Full

\* line 84
base_dt(row, ram) == IF ~isna(ram) THEN ram ELSE row.STD_Full

\* atd_dt without the next-day step
atd_dt_same_day(row, ram) ==
    IF "ATD" \in DOMAIN row /\ notna(row.ATD) /\ IsClock(row.ATD)
    THEN replace(base_dt(row, ram), row.ATD.h, row.ATD.m)
    ELSE NaT

\* lines 80-87: the departure time on the base's date, the next day when
\* it would precede the base
atd_dt(row, ram) ==
    IF "ATD" \in DOMAIN row /\ notna(row.ATD) /\ IsClock(row.ATD)
    THEN LET base == base_dt(row, ram)
             cand == replace(base, row.ATD.h, row.ATD.m)
         IN  IF Before(cand, base) THEN PlusDay(cand) ELSE cand
    ELSE NaT

\* lines 95-96
total_delay(row, atd) ==
    IF ~isna(atd) THEN TotalMinutes(atd) - TotalMinutes(row.STD_Full) ELSE 0

\* the ramp delay as a duration, without its sign
ramp_delay_unsigned(row, ram) ==
    IF ~isna(ram)
    THEN LET d == TotalMinutes(ram) - TotalMinutes(row.STD_Full)
         IN  IF d < 0 THEN -d ELSE d
    ELSE 0

\* lines 99-100
ramp_delay(row, ram) ==
    IF ~isna(ram) THEN TotalMinutes(ram) - TotalMinutes(row.STD_Full) ELSE 0

\* taxi_time that falls through to the timestamps when the cell is no float
taxi_time_fallthrough(row, ram, atd) ==
    IF "ATD-RAM" \in DOMAIN row /\ notna(row["ATD-RAM"]) /\ IsFloat(row["ATD-RAM"])
    THEN row["ATD-RAM"].num
    ELSE IF ~isna(atd) /\ ~isna(ram)
    THEN TotalMinutes(atd) - TotalMinutes(ram)
    ELSE 0

\* lines 103-107
taxi_time(row, ram, atd) ==
    IF "ATD-RAM" \in DOMAIN row /\ notna(row["ATD-RAM"])
    THEN (IF IsFloat(row["ATD-RAM"]) THEN row["ATD-RAM"].num ELSE 0)
    ELSE IF ~isna(atd) /\ ~isna(ram)
    THEN TotalMinutes(atd) - TotalMinutes(ram)
    ELSE 0

\* calc_all_times that keeps the precomputed taxi time of a flight without
\* a scheduled time
calc_all_times_keep_taxi(row) ==
    IF isna(row.STD_Full)
    THEN <<NaT, NaT, 0, taxi_time(row, NaT, NaT), 0>>
    ELSE LET ram == ram_dt(row)
             atd == atd_dt(row, ram)
         IN  <<ram, atd, ramp_delay(row, ram), taxi_time(row, ram, atd),
               total_delay(row, atd)>>

\* lines 65-109: <<ram_dt, atd_dt, ramp_delay, taxi_time, total_delay>>
calc_all_times(row) ==
    IF isna(row.STD_Full)
    THEN <<NaT, NaT, 0, 0, 0>>
    ELSE LET ram == ram_dt(row)
             atd == atd_dt(row, ram)
         IN  <<ram, atd, ramp_delay(row, ram), taxi_time(row, ram, atd),
               total_delay(row, atd)>>

----------------------------------------------------------------------------
\* Monthly statistics.  A mean is the fraction num/den; a standard
\* deviation is the square root of the fraction num/den (ddof = 1), NaN
\* for fewer than two values; mean + std is the pair of the two, NaN when
\* the deviation is.

\* Series.dt.to_period('M')
to_period_M(ts) == IF isna(ts) THEN NaT ELSE [year |-> ts.year, month |-> ts.month]

RECURSIVE SeqSum(_)
SeqSum(xs) == IF xs = <<>> THEN 0 ELSE Head(xs) + SeqSum(Tail(xs))

Squares(xs) == [i \in 1..Len(xs) |-> xs[i] * xs[i]]

mean(xs) == [num |-> SeqSum(xs), den |-> Len(xs)]

std(xs) ==
    IF Len(xs) < 2 THEN NaN
    ELSE [num |-> Len(xs) * SeqSum(Squares(xs)) - SeqSum(xs) * SeqSum(xs),
          den |-> Len(xs) * (Len(xs) - 1)]

\* stats['mean'] + stats['std']
Limit_1Sigma(m, s) == IF isna(s) THEN NaN ELSE [mean |-> m, std |-> s]

\* x > limit for a limit that is not NaN
GreaterThan(x, limit) ==
    LET d == limit.mean.den * x - limit.mean.num
    IN  /\ d > 0
        /\ d * d * limit.std.den > limit.std.num * limit.mean.den * limit.mean.den

\* valid_taxi that keeps zero taxi times
valid_taxi_nonnegative(df) == SelectSeq(df, LAMBDA r : r.Taxi_Time >= 0)

\* line 121
valid_taxi(df) == SelectSeq(df, LAMBDA r : r.Taxi_Time > 0)

\* the Taxi_Time values of month ym, in row order
TaxiOf(df, ym) ==
    LET g == SelectSeq(df, LAMBDA r : r.YM = ym)
    IN  [i \in 1..Len(g) |-> g[i].Taxi_Time]

\* lines 121-123: groupby('YM') drops the NaT key
monthly_stats(df) ==
    LET valid == valid_taxi(df)
        keys == {valid[i].YM : i \in 1..Len(valid)} \ {NaT}
    IN  {[YM |-> k,
          mean |-> mean(TaxiOf(valid, k)),
          std |-> std(TaxiOf(valid, k)),
          Limit_1Sigma |-> Limit_1Sigma(mean(TaxiOf(valid, k)), std(TaxiOf(valid, k)))]
         : k \in keys}

RECURSIVE SetToSeq(_)
SetToSeq(S) ==
    IF S = {} THEN <<>>
    ELSE LET x == CHOOSE y \in S : TRUE IN <<x>> \o SetToSeq(S \ {x})

\* the statistics merge as an inner join
RECURSIVE merge_left_inner(_, _)
merge_left_inner(left, right) ==
    IF left = <<>> THEN <<>>
    ELSE LET r == Head(left)
             hits == SetToSeq({s \in right : s.YM = r.YM})
         IN  [i \in 1..Len(hits) |-> r @@ hits[i]] \o merge_left_inner(Tail(left), right)

\* line 125: pd.merge(df_flight, stats, on='YM', how='left')
RECURSIVE merge_left(_, _)
merge_left(left, right) ==
    IF left = <<>> THEN <<>>
    ELSE LET r == Head(left)
             hits == SetToSeq({s \in right : s.YM = r.YM})
             rows == IF hits = <<>>
                     THEN <<r @@ [mean |-> NaN, std |-> NaN, Limit_1Sigma |-> NaN]>>
                     ELSE [i \in 1..Len(hits) |-> r @@ hits[i]]
         IN  rows \o merge_left(Tail(left), right)

----------------------------------------------------------------------------
\* Classification and the stand join

\* line 137
limit_of(row) ==
    IF notna(row.Limit_1Sigma) THEN row.Limit_1Sigma ELSE DefaultLimit

\* line 138
OverLimit(row) ==
    IF notna(row.Limit_1Sigma)
    THEN GreaterThan(row.Taxi_Time, limit_of(row))
    ELSE row.Taxi_Time > limit_of(row)

\* classify_delay_stat with the sigma limit as a gate
classify_delay_stat_gated(row) ==
    IF row.Total_Delay <= NormalTotalDelay THEN "Normal"
    ELSE IF row.Ramp_Delay >= RampDelayMin THEN "Ramp (Gate)"
    ELSE IF OverLimit(row) THEN "Taxi (Ground)"
    ELSE "Ramp (Gate)"

\* classify_delay_stat whose last branch gives a fourth label
classify_delay_stat_unknown(row) ==
    IF row.Total_Delay <= NormalTotalDelay THEN "Normal"
    ELSE IF row.Ramp_Delay >= RampDelayMin THEN "Ramp (Gate)"
    ELSE IF OverLimit(row) THEN "Taxi (Ground)"
    ELSE "Unknown"

\* lines 127-141
classify_delay_stat(row) ==
    IF row.Total_Delay <= NormalTotalDelay THEN "Normal"
    ELSE IF row.Ramp_Delay >= RampDelayMin THEN "Ramp (Gate)"
    ELSE IF OverLimit(row) THEN "Taxi (Ground)"
    ELSE "Taxi (Ground)"

\* line 144: pd.merge(df_flight, df_zone, left_on='SPT', right_on='Stand_ID',
\* how='inner')
RECURSIVE merge_inner(_, _)
merge_inner(left, right) ==
    IF left = <<>> THEN <<>>
    ELSE LET r == Head(left)
             hits == SelectSeq(right, LAMBDA z : z.Stand_ID = r.SPT)
         IN  [i \in 1..Len(hits) |-> r @@ hits[i]] \o merge_inner(Tail(left), right)

----------------------------------------------------------------------------
\* Inputs

Clock(h, m) == [h |-> h, m |-> m]
Ymd(yy, mm, dd) == [yy |-> yy, mm |-> mm, dd |-> dd]
Text(s) == [text |-> s]
Num(v) == [num |-> v]

OptionalCols == {"RAM", "ATD", "ATD-RAM"}

\* the rows a frame with the optional columns cols can hold
RowsOver(cols, dates, stds, rams, atds, taxis, spts) ==
    LET base == [Date : dates, STD : stds, SPT : spts]
        withRam == IF "RAM" \in cols
                   THEN {b @@ [RAM |-> v] : b \in base, v \in rams} ELSE base
        withAtd == IF "ATD" \in cols
                   THEN {b @@ [ATD |-> v] : b \in withRam, v \in atds} ELSE withRam
    IN  IF "ATD-RAM" \in cols
        THEN {b @@ ("ATD-RAM" :> v) : b \in withAtd, v \in taxis} ELSE withAtd

\* batches of flights: two months and an unreadable date, ramp-out 14 and
\* 15 minutes after schedule, departure 15 and 16 minutes after schedule
BatchDates == {Ymd(24, 1, 31), Ymd(24, 2, 1), Text("Date")}
BatchSTD == {Clock(10, 0)}
BatchRAM == {Clock(10, 14), Clock(10, 15)}
BatchATD == {Clock(10, 15), Clock(10, 16)}
BatchTaxi == {NaN, Num(40)}
BatchSPT == {"101", "999"}
\* stand 101 is in the stand table, stand 999 is not
StandTable == <<[Stand_ID |-> "101", Zone |-> "A"]>>

\* the batch rows; of the four ramp-out/departure pairs, 10:14 with 10:15 is
\* left out (10:15 with 10:15 already gives a total delay of 15)
BatchRows(cols) ==
    {r \in RowsOver(cols, BatchDates, BatchSTD, BatchRAM, BatchATD, BatchTaxi,
                    BatchSPT) :
        ("RAM" \in cols /\ "ATD" \in cols /\ r.RAM = Clock(10, 14))
            => r.ATD = Clock(10, 16)}

\* single flights: dates at month and year ends, scheduled times on both
\* sides of the 04:00 and 20:00 marks, unreadable cells of every column
OneDates == {Ymd(23, 12, 31), Ymd(24, 1, 1), Ymd(24, 2, 29), Ymd(23, 2, 29)}
OneHours == {0, 3, 4, 12, 20, 21, 23}
OneSTD == {Clock(h, m) : h \in OneHours, m \in {0, 50}}
              \cup {NaN, Text("STD"), Clock(24, 0)}
OneRAM == {Clock(h, 10) : h \in OneHours}
              \cup {Clock(12, 5), NaN, Text("RAM"), Clock(12, 60)}
OneATD == {Clock(h, m) : h \in OneHours, m \in {5, 10}}
              \cup {NaN, Text("ATD")}
OneTaxi == {NaN, Num(0), Num(25), Text("ATD-RAM")}
OneSPT == {"101"}
\* stand tables listing stand 101 once and twice
ZoneTables == {StandTable,
               <<[Stand_ID |-> "101", Zone |-> "A"],
                 [Stand_ID |-> "101", Zone |-> "B"]>>}

OneRows(cols) == RowsOver(cols, OneDates, OneSTD, OneRAM, OneATD, OneTaxi, OneSPT)

----------------------------------------------------------------------------
\* load_data, statement by statement

Init ==
    /\ pc = "parse_dt"
    /\ df_zone = StandTable
    /\ \E cols \in SUBSET OptionalCols :
         \E n \in 1..MaxRows : raw \in [1..n -> BatchRows(cols)]
    /\ df_flight = raw
    /\ res = <<>>
    /\ stats = {}
    /\ df_merged = <<>>
    /\ df_ramp = <<>>

\* line 62, one row of the apply
ParseDtRow ==
    /\ pc = "parse_dt"
    /\ Len(res) < Len(df_flight)
    /\ LET x == df_flight[Len(res) + 1]
       IN  res' = Append(res, parse_dt(x.Date, x.STD))
    /\ UNCHANGED <<pc, raw, df_zone, df_flight, stats, df_merged, df_ramp>>

\* line 62, the column assignment
AssignSTDFull ==
    /\ pc = "parse_dt"
    /\ Len(res) = Len(df_flight)
    /\ df_flight' = [i \in 1..Len(df_flight) |->
                        df_flight[i] @@ [STD_Full |-> res[i]]]
    /\ res' = <<>>
    /\ pc' = "calc_all_times"
    /\ UNCHANGED <<raw, df_zone, stats, df_merged, df_ramp>>

\* line 111, one row of the apply
CalcRow ==
    /\ pc = "calc_all_times"
    /\ Len(res) < Len(df_flight)
    /\ res' = Append(res, calc_all_times(df_flight[Len(res) + 1]))
    /\ UNCHANGED <<pc, raw, df_zone, df_flight, stats, df_merged, df_ramp>>

\* lines 112-116
AssignMetrics ==
    /\ pc = "calc_all_times"
    /\ Len(res) = Len(df_flight)
    /\ df_flight' = [i \in 1..Len(df_flight) |->
                        df_flight[i] @@ [RAM_Full |-> res[i][1],
                                         ATD_Full |-> res[i][2],
                                         Ramp_Delay |-> res[i][3],
                                         Taxi_Time |-> res[i][4],
                                         Total_Delay |-> res[i][5]]]
    /\ res' = <<>>
    /\ pc' = "stats"
    /\ UNCHANGED <<raw, df_zone, stats, df_merged, df_ramp>>

\* lines 119-123
ComputeStats ==
    /\ pc = "stats"
    /\ LET withYM == [i \in 1..Len(df_flight) |->
                         df_flight[i] @@ [YM |-> to_period_M(df_flight[i].STD_Full)]]
       IN  /\ df_flight' = withYM
           /\ stats' = monthly_stats(withYM)
    /\ pc' = "merge"
    /\ UNCHANGED <<raw, df_zone, res, df_merged, df_ramp>>

\* line 125
MergeStats ==
    /\ pc = "merge"
    /\ df_flight' = merge_left(df_flight, stats)
    /\ pc' = "classify"
    /\ UNCHANGED <<raw, df_zone, res, stats, df_merged, df_ramp>>

\* the classification recomputing the statistics from the rows it has seen
ClassifyRow_rolling ==
    /\ pc = "classify"
    /\ Len(res) < Len(df_flight)
    /\ res' = Append(res, classify_delay_stat(df_flight[Len(res) + 1]))
    /\ stats' = monthly_stats(SubSeq(df_flight, 1, Len(res) + 1))
    /\ UNCHANGED <<pc, raw, df_zone, df_flight, df_merged, df_ramp>>

\* the classification leaving the cause of the record before it in place
\* when a delayed record is not a ramp delay
ClassifyRow_sticky ==
    /\ pc = "classify"
    /\ Len(res) < Len(df_flight)
    /\ LET row == df_flight[Len(res) + 1]
       IN  res' = Append(res,
                    IF /\ Len(res) > 0
                       /\ row.Total_Delay > NormalTotalDelay
                       /\ row.Ramp_Delay < RampDelayMin
                    THEN res[Len(res)]
                    ELSE classify_delay_stat(row))
    /\ UNCHANGED <<pc, raw, df_zone, df_flight, stats, df_merged, df_ramp>>

\* line 143, one row of the apply
ClassifyRow ==
    /\ pc = "classify"
    /\ Len(res) < Len(df_flight)
    /\ res' = Append(res, classify_delay_stat(df_flight[Len(res) + 1]))
    /\ UNCHANGED <<pc, raw, df_zone, df_flight, stats, df_merged, df_ramp>>

\* line 143, the column assignment
AssignDelayCause ==
    /\ pc = "classify"
    /\ Len(res) = Len(df_flight)
    /\ df_flight' = [i \in 1..Len(df_flight) |->
                        df_flight[i] @@ [Delay_Cause |-> res[i]]]
    /\ res' = <<>>
    /\ pc' = "join"
    /\ UNCHANGED <<raw, df_zone, stats, df_merged, df_ramp>>

\* line 144
JoinZone ==
    /\ pc = "join"
    /\ df_merged' = merge_inner(df_flight, df_zone)
    /\ pc' = "done"
    /\ UNCHANGED <<raw, df_zone, df_flight, res, stats, df_ramp>>

Next ==
    \/ ParseDtRow
    \/ AssignSTDFull
    \/ CalcRow
    \/ AssignMetrics
    \/ ComputeStats
    \/ MergeStats
    \/ ClassifyRow
    \/ AssignDelayCause
    \/ JoinZone

Spec == Init /\ [][Next]_vars

\* one flight at a time, over the wider cell values
InitOne ==
    /\ pc = "parse_dt"
    /\ df_zone \in ZoneTables
    /\ \E cols \in SUBSET OptionalCols : raw \in [1..1 -> OneRows(cols)]
    /\ df_flight = raw
    /\ res = <<>>
    /\ stats = {}
    /\ df_merged = <<>>
    /\ df_ramp = <<>>

SpecOne == InitOne /\ [][Next]_vars

----------------------------------------------------------------------------
\* load_data as a function of the flight table it reads: the table with its
\* delay causes (lines 62-143), before the join with the stand table
load_data(batch) ==
    LET n == Len(batch)
        parsed == [i \in 1..n |->
                      batch[i] @@ [STD_Full |-> parse_dt(batch[i].Date, batch[i].STD)]]
        timed == [i \in 1..n |->
                     LET m == calc_all_times(parsed[i])
                     IN  parsed[i] @@ [RAM_Full |-> m[1],
                                       ATD_Full |-> m[2],
                                       Ramp_Delay |-> m[3],
                                       Taxi_Time |-> m[4],
                                       Total_Delay |-> m[5]]]
        withYM == [i \in 1..n |->
                      timed[i] @@ [YM |-> to_period_M(timed[i].STD_Full)]]
        merged == merge_left(withYM, monthly_stats(withYM))
    IN  [i \in 1..Len(merged) |->
            merged[i] @@ [Delay_Cause |-> classify_delay_stat(merged[i])]]

----------------------------------------------------------------------------
\* The fixed dual-threshold classifier (Policy A of the specification,
\* section 4.4); the script variant carrying it is not among the sources,
\* so the branches are those of the specification's listing.

\* the tie at the excess taxi time going to the ramp
classify_delay_fixed_tie(ramp, taxi) ==
    IF ramp < 15 /\ taxi < 25 THEN "Normal"
    ELSE IF ramp >= 15 /\ taxi < 30 THEN "RampGate"
    ELSE IF taxi >= 30
         THEN IF ramp >= taxi - 20 THEN "RampGate" ELSE "TaxiGround"
    ELSE "RampGate"

classify_delay_fixed(ramp, taxi) ==
    IF ramp < 15 /\ taxi < 25 THEN "Normal"
    ELSE IF ramp >= 15 /\ taxi < 30 THEN "RampGate"
    ELSE IF taxi >= 30
         THEN IF ramp > taxi - 20 THEN "RampGate" ELSE "TaxiGround"
    ELSE "RampGate"

\* the delays, in minutes, the fixed classifier is applied to
MaxMinutes == 45

FixedRows ==
    {[Ramp_Delay |-> rd, Taxi_Time |-> tt] :
        rd \in -MaxMinutes..MaxMinutes, tt \in -MaxMinutes..MaxMinutes}

InitFixed ==
    /\ pc = "classify_fixed"
    /\ df_zone = StandTable
    /\ raw \in [1..1 -> FixedRows]
    /\ df_flight = raw
    /\ res = <<>>
    /\ stats = {}
    /\ df_merged = <<>>
    /\ df_ramp = <<>>

\* one row of the apply
ClassifyFixedRow ==
    /\ pc = "classify_fixed"
    /\ Len(res) < Len(df_flight)
    /\ LET row == df_flight[Len(res) + 1]
       IN  res' = Append(res, classify_delay_fixed(row.Ramp_Delay, row.Taxi_Time))
    /\ UNCHANGED <<pc, raw, df_zone, df_flight, stats, df_merged, df_ramp>>

\* the column assignment
AssignFixedCause ==
    /\ pc = "classify_fixed"
    /\ Len(res) = Len(df_flight)
    /\ df_flight' = [i \in 1..Len(df_flight) |->
                        df_flight[i] @@ [Delay_Cause |-> res[i]]]
    /\ res' = <<>>
    /\ pc' = "classified_fixed"
    /\ UNCHANGED <<raw, df_zone, stats, df_merged, df_ramp>>

NextFixed ==
    \/ ClassifyFixedRow
    \/ AssignFixedCause

SpecFixed == InitFixed /\ [][NextFixed]_vars

----------------------------------------------------------------------------
\* snowdelay_app.py: the delay of a departure in minutes

None == [none |-> TRUE]

\* str(x).split(':'): the fields of the cell's text, a whole number as
\* Num, anything else as it stands
split(cell) ==
    IF DOMAIN cell = {"h", "m"} THEN <<Num(cell.h), Num(cell.m)>>
    ELSE IF DOMAIN cell = {"h", "m", "s"}
         THEN <<Num(cell.h), Num(cell.m), Num(cell.s)>>
    ELSE IF DOMAIN cell = {"h"} THEN <<Num(cell.h)>>
    ELSE <<cell>>

\* lines 137-138: map(int, ...) unpacked into two names; anything but two
\* fields that are both integers raises ValueError
TwoIntegers(fields) ==
    /\ Len(fields) = 2
    /\ \A i \in 1..Len(fields) : IsFloat(fields[i])

\* the correction wrapping a difference of exactly half a day as well
calculate_delay_minutes_inclusive(row) ==
    IF /\ TwoIntegers(split(row.STD))
       /\ TwoIntegers(split(row.ATD))
    THEN LET std_mins == split(row.STD)[1].num * 60 + split(row.STD)[2].num
             atd_mins == split(row.ATD)[1].num * 60 + split(row.ATD)[2].num
             diff == atd_mins - std_mins
         IN  IF diff <= -720 THEN Num(diff + 1440)
             ELSE IF diff >= 720 THEN Num(diff - 1440)
             ELSE Num(diff)
    ELSE None

\* lines 135-152; the bare except turns every exception into None
calculate_delay_minutes(row) ==
    IF /\ TwoIntegers(split(row.STD))
       /\ TwoIntegers(split(row.ATD))
    THEN LET std_mins == split(row.STD)[1].num * 60 + split(row.STD)[2].num
             atd_mins == split(row.ATD)[1].num * 60 + split(row.ATD)[2].num
             diff == atd_mins - std_mins
         IN  IF diff < -720 THEN Num(diff + 1440)
             ELSE IF diff > 720 THEN Num(diff - 1440)
             ELSE Num(diff)
    ELSE None

\* the cells of the STD and ATD columns: clock times over every hour, and
\* texts that are no clock time
RampMinutes == {0, 1, 30, 59}

RampCells ==
    {Clock(h, m) : h \in 0..23, m \in RampMinutes}
        \cup {NaN, Text("STD"), Text(""), [h |-> 12], [h |-> 12, m |-> 30, s |-> 0],
              Clock(24, 0)}

RampRows == [STD : RampCells, ATD : RampCells]

InitRamp ==
    /\ pc = "Delay_Min"
    /\ df_ramp \in [1..1 -> RampRows]
    /\ raw = <<>>
    /\ df_zone = <<>>
    /\ df_flight = <<>>
    /\ res = <<>>
    /\ stats = {}
    /\ df_merged = <<>>

\* line 157, one row of the apply
DelayMinRow ==
    /\ pc = "Delay_Min"
    /\ Len(res) < Len(df_ramp)
    /\ res' = Append(res, calculate_delay_minutes(df_ramp[Len(res) + 1]))
    /\ UNCHANGED <<pc, raw, df_zone, df_flight, stats, df_merged, df_ramp>>

\* line 157, the column assignment
AssignDelayMin ==
    /\ pc = "Delay_Min"
    /\ Len(res) = Len(df_ramp)
    /\ df_ramp' = [i \in 1..Len(df_ramp) |->
                      df_ramp[i] @@ [Delay_Min |-> res[i]]]
    /\ res' = <<>>
    /\ pc' = "Month"
    /\ UNCHANGED <<raw, df_zone, df_flight, stats, df_merged>>

NextRamp ==
    \/ DelayMinRow
    \/ AssignDelayMin

SpecRamp == InitRamp /\ [][NextRamp]_vars

----------------------------------------------------------------------------
\* Vocabulary of the properties

DelayCauses == {"Normal", "Ramp (Gate)", "Taxi (Ground)"}

FlightRows == {df_flight[i] : i \in 1..Len(df_flight)}

\* the flights with their derived timestamps and metrics (after line 116)
MetricRows == {r \in FlightRows : "Total_Delay" \in DOMAIN r}

\* the flights with their monthly limit (after line 125)
LimitRows == {r \in FlightRows : "Limit_1Sigma" \in DOMAIN r}

\* the flights with their delay cause (after line 143)
CausedRows == {r \in FlightRows : "Delay_Cause" \in DOMAIN r}

HasClock(r, col) == col \in DOMAIN r /\ IsClock(r[col])

SameClock(ts, tok) == ts.hour = tok.h /\ ts.minute = tok.m

DayOffset(a, b) == toordinal(a) - toordinal(b)

MinuteOfDay(h, m) == h * 60 + m

\* the midnight-rollover correction, in days
RollShift(anchorHour, clockHour) ==
    IF anchorHour < 4 /\ clockHour > 20 THEN -1
    ELSE IF anchorHour > 20 /\ clockHour < 4 THEN 1
    ELSE 0

\* ts is clock time tok resolved against anchor by the rollover correction
RolledAgainst(ts, anchor, tok) ==
    /\ SameClock(ts, tok)
    /\ DayOffset(ts, anchor) = RollShift(anchor.hour, tok.h)

\* the timestamp the departure was resolved against
BaseOf(r) == IF notna(r.RAM_Full) THEN r.RAM_Full ELSE r.STD_Full

----------------------------------------------------------------------------
\* C1: once the pipeline has run, every record of the classified table and
\* of the returned table carries a delay cause, and it is one of Normal,
\* Ramp (Gate) and Taxi (Ground).
C1_TotalCoverage ==
    /\ \A i \in 1..Len(res) : pc = "classify" => res[i] \in DelayCauses
    /\ pc \in {"join", "done"} =>
         \A r \in FlightRows :
            "Delay_Cause" \in DOMAIN r /\ r.Delay_Cause \in DelayCauses
    /\ \A i \in 1..Len(df_merged) :
         /\ "Delay_Cause" \in DOMAIN df_merged[i]
         /\ df_merged[i].Delay_Cause \in DelayCauses

\* a returned table holding a flight without a scheduled time and a flight
\* that fell through to the last branch of the classification
C1_Witness ==
    /\ pc = "done"
    /\ \E i, j \in 1..Len(df_merged) :
         /\ isna(df_merged[i].STD_Full)
         /\ df_merged[i].Delay_Cause = "Normal"
         /\ df_merged[j].Delay_Cause = "Taxi (Ground)"
         /\ df_merged[j].Taxi_Time <= DefaultLimit

\* C2: a ramp-out clock time is resolved to the scheduled date at that hour
\* and minute, one day earlier exactly when the scheduled hour is below 4
\* and the clock hour above 20, one day later exactly when the scheduled
\* hour is above 20 and the clock hour below 4, and on the scheduled date
\* otherwise; 00:10 against 23:50 is 20 minutes later, 12:05 against 12:00
\* stays on the same date.
C2_ResolveRelative ==
    \A r \in MetricRows :
        (notna(r.STD_Full) /\ HasClock(r, "RAM") /\ notna(r.RAM)) =>
            /\ notna(r.RAM_Full)
            /\ RolledAgainst(r.RAM_Full, r.STD_Full, r.RAM)
            /\ (r.STD = Clock(23, 50) /\ r.RAM = Clock(0, 10)) =>
                  /\ DayOffset(r.RAM_Full, r.STD_Full) = 1
                  /\ r.Ramp_Delay = 20
            /\ (r.STD = Clock(12, 0) /\ r.RAM = Clock(12, 5)) =>
                  /\ DayOffset(r.RAM_Full, r.STD_Full) = 0
                  /\ r.Ramp_Delay = 5

\* a flight scheduled at 23:50 of the last day of a year whose 00:10
\* ramp-out was put on the first day of the next
C2_Witness ==
    \E r \in MetricRows :
        /\ r.Date = Ymd(23, 12, 31) /\ r.STD = Clock(23, 50)
        /\ HasClock(r, "RAM") /\ r.RAM = Clock(0, 10)
        /\ r.RAM_Full = [year |-> 2024, month |-> 1, day |-> 1,
                         hour |-> 0, minute |-> 10]
        /\ r.Ramp_Delay = 20

\* C3 as stated: both the ramp-out and the departure are the clock time
\* resolved against the scheduled time by the rollover correction.
C3_AllAgainstScheduled ==
    \A r \in MetricRows :
        notna(r.STD_Full) =>
            /\ notna(r.RAM_Full) => RolledAgainst(r.RAM_Full, r.STD_Full, r.RAM)
            /\ notna(r.ATD_Full) => RolledAgainst(r.ATD_Full, r.STD_Full, r.ATD)

\* C3, amended: without a scheduled time nothing is resolved; the ramp-out
\* is resolved against the scheduled time by the rollover correction; the
\* departure is resolved against the ramp-out when that resolved, against
\* the scheduled time otherwise, as the first time at or after it that
\* shows the departure clock time.
C3_Anchoring ==
    \A r \in MetricRows :
        /\ isna(r.STD_Full) => isna(r.RAM_Full) /\ isna(r.ATD_Full)
        /\ notna(r.RAM_Full) =>
              /\ HasClock(r, "RAM")
              /\ RolledAgainst(r.RAM_Full, r.STD_Full, r.RAM)
        /\ notna(r.ATD_Full) =>
              /\ HasClock(r, "ATD")
              /\ SameClock(r.ATD_Full, r.ATD)
              /\ TotalMinutes(r.ATD_Full) - TotalMinutes(BaseOf(r)) \in 0..1439

\* a departure placed by its ramp-out where the scheduled time would have
\* placed it on another day
C3_Witness ==
    \E r \in MetricRows :
        /\ notna(r.RAM_Full) /\ notna(r.ATD_Full)
        /\ TotalMinutes(r.ATD_Full) - TotalMinutes(r.RAM_Full) \in 0..1439
        /\ ~RolledAgainst(r.ATD_Full, r.STD_Full, r.ATD)
        /\ TotalMinutes(r.ATD_Full) - TotalMinutes(r.STD_Full) >= 1440

\* C4: a resolved departure is never earlier than its base (the ramp-out
\* when that resolved, the scheduled time otherwise); it lies on the
\* base's date, or on the next day exactly when its clock time is earlier
\* than the base's.
C4_DepartureNotBeforeBase ==
    \A r \in MetricRows :
        notna(r.ATD_Full) =>
            /\ TotalMinutes(r.ATD_Full) >= TotalMinutes(BaseOf(r))
            /\ DayOffset(r.ATD_Full, BaseOf(r)) =
                 IF MinuteOfDay(r.ATD.h, r.ATD.m)
                      < MinuteOfDay(BaseOf(r).hour, BaseOf(r).minute)
                 THEN 1 ELSE 0

\* a departure whose clock time is earlier than its ramp-out's, placed on
\* the day after the ramp-out
C4_Witness ==
    \E r \in MetricRows :
        /\ notna(r.RAM_Full) /\ notna(r.ATD_Full)
        /\ MinuteOfDay(r.ATD.h, r.ATD.m) < MinuteOfDay(r.RAM.h, r.RAM.m)
        /\ DayOffset(r.ATD_Full, r.RAM_Full) = 1

\* the number of stand rows a flight is joined to
StandHits(r) == Cardinality({k \in 1..Len(df_zone) : df_zone[k].Stand_ID = r.SPT})

RECURSIVE TotalStandHits(_)
TotalStandHits(n) ==
    IF n = 0 THEN 0 ELSE TotalStandHits(n - 1) + StandHits(df_flight[n])

Unscheduled(r) == ~(IsYmd(r.Date) /\ IsClock(r.STD))

\* the year-month of a record's scheduled date, read off its cells
YearMonthOf(r) ==
    IF Unscheduled(r) THEN NaT
    ELSE [year |-> 2000 + r.Date.yy, month |-> r.Date.mm]

\* the records that count towards the baseline of year-month ym
Qualifying(ym) ==
    {j \in 1..Len(df_flight) :
        df_flight[j].Taxi_Time > 0 /\ YearMonthOf(df_flight[j]) = ym}

RECURSIVE TaxiSum(_)
TaxiSum(J) ==
    IF J = {} THEN 0
    ELSE LET j == CHOOSE k \in J : TRUE
         IN  df_flight[j].Taxi_Time + TaxiSum(J \ {j})

RECURSIVE TaxiSquareSum(_)
TaxiSquareSum(J) ==
    IF J = {} THEN 0
    ELSE LET j == CHOOSE k \in J : TRUE
         IN  df_flight[j].Taxi_Time * df_flight[j].Taxi_Time + TaxiSquareSum(J \ {j})

\* the number of records the statistics table was computed from
RECURSIVE SampleCount(_)
SampleCount(S) ==
    IF S = {} THEN 0
    ELSE LET x == CHOOSE y \in S : TRUE IN x.mean.den + SampleCount(S \ {x})

StatsComputed == pc \in {"merge", "classify", "join", "done"}

\* the mean and mean + standard deviation of the taxi times of records J
MeanOf(J) == [num |-> TaxiSum(J), den |-> Cardinality(J)]

SigmaLimitOf(J) ==
    LET n == Cardinality(J)
        sum == TaxiSum(J)
    IN  [mean |-> [num |-> sum, den |-> n],
         std |-> [num |-> n * TaxiSquareSum(J) - sum * sum, den |-> n * (n - 1)]]

----------------------------------------------------------------------------
C9_StatisticalFallback ==
    /\ StatsComputed =>
          /\ \A s \in stats :
                LET Q == Qualifying(s.YM)
                    n == Cardinality(Q)
                IN  /\ s.YM # NaT
                    /\ n >= 1
                    /\ s.mean = MeanOf(Q)
                    /\ n = 1 => isna(s.std) /\ isna(s.Limit_1Sigma)
                    /\ n >= 2 => s.Limit_1Sigma = SigmaLimitOf(Q)
          /\ \A r \in FlightRows :
                (r.Taxi_Time > 0 /\ ~Unscheduled(r)) =>
                   \E s \in stats : s.YM = YearMonthOf(r)
    /\ \A r \in LimitRows :
          LET Q == Qualifying(YearMonthOf(r))
          IN  IF Cardinality(Q) < 2
              THEN limit_of(r) = 30
              ELSE limit_of(r) = SigmaLimitOf(Q)

\* a delayed record, not a ramp delay, whose month has a single taxi-time
\* sample: its limit is the default
C9_Witness ==
    \E r \in CausedRows :
        /\ r.Total_Delay > 15 /\ r.Ramp_Delay < 15
        /\ r.Taxi_Time > 0
        /\ Cardinality(Qualifying(YearMonthOf(r))) = 1
        /\ isna(r.Limit_1Sigma)
        /\ limit_of(r) = 30

\* some record has been classified
ClassificationStarted ==
    \/ pc = "classify" /\ Len(res) > 0
    \/ pc \in {"join", "done"}

\* the statistics were computed, from the metrics of every record read
AggregationComplete ==
    /\ StatsComputed
    /\ Len(df_flight) = Len(raw)
    /\ MetricRows = FlightRows
    /\ SampleCount(stats) =
          Cardinality({j \in 1..Len(df_flight) : df_flight[j].Taxi_Time > 0})

\* C10: a step that classifies a record is taken only after the monthly
\* aggregation over all records of the batch, and from the first
\* classification on no step changes the statistics table.
C10_Barrier ==
    [][/\ ClassificationStarted' => AggregationComplete'
       /\ ClassificationStarted => stats' = stats]_vars

\* the classification under way, between two records, with a statistics
\* table in place
C10_Witness ==
    /\ pc = "classify"
    /\ Len(res) = 1
    /\ Len(df_flight) = 2
    /\ stats # {}

\* the orders a batch of n records can be read in
ReadingOrders(n) ==
    {p \in [1..n -> 1..n] : \A i, j \in 1..n : p[i] = p[j] => i = j}

\* the batch read in the order p
Reordered(batch, p) == [k \in 1..Len(batch) |-> batch[p[k]]]

\* C11: classification is deterministic and order-independent: once the
\* batch is classified, reading the same batch in any order gives each
\* record the delay cause it has, and classifying an already-classified
\* record again gives the delay cause it has.
C11_OrderIndependent ==
    pc = "join" =>
       /\ \A p \in ReadingOrders(Len(raw)) :
             LET again == load_data(Reordered(raw, p))
             IN  /\ Len(again) = Len(raw)
                 /\ \A k \in 1..Len(raw) :
                       again[k].Delay_Cause = df_flight[p[k]].Delay_Cause
       /\ \A r \in CausedRows : classify_delay_stat(r) = r.Delay_Cause

\* a classified batch of two records with different causes, the second one
\* delayed on the taxiway after a punctual first one
C11_Witness ==
    /\ pc = "join"
    /\ Len(df_flight) = 2
    /\ df_flight[1].Delay_Cause = "Normal"
    /\ df_flight[2].Delay_Cause = "Taxi (Ground)"
    /\ load_data(Reordered(raw, <<2, 1>>))[1].Delay_Cause = "Taxi (Ground)"

\* C12: the fixed dual-threshold policy gives every pair (ramp_delay,
\* taxi_time) one cause: Normal exactly when ramp_delay < 15 and
\* taxi_time < 25; with taxi_time >= 30, RampGate if ramp_delay >
\* taxi_time - 20 and TaxiGround otherwise; RampGate for every other pair,
\* ramp_delay < 15 with 25 <= taxi_time < 30 included; (10,20) is Normal,
\* (20,10) is RampGate and (5,35) is TaxiGround.
C12_PolicyA ==
    \A r \in CausedRows :
        LET rd == r.Ramp_Delay
            tt == r.Taxi_Time
            cause == r.Delay_Cause
        IN  /\ cause \in {"Normal", "RampGate", "TaxiGround"}
            /\ cause = "Normal" <=> (rd < 15 /\ tt < 25)
            /\ (tt >= 30 /\ rd > tt - 20) => cause = "RampGate"
            /\ (tt >= 30 /\ rd <= tt - 20) => cause = "TaxiGround"
            /\ (tt < 30 /\ ~(rd < 15 /\ tt < 25)) => cause = "RampGate"
            /\ (rd < 15 /\ 25 <= tt /\ tt < 30) => cause = "RampGate"
            /\ (rd = 10 /\ tt = 20) => cause = "Normal"
            /\ (rd = 20 /\ tt = 10) => cause = "RampGate"
            /\ (rd = 5 /\ tt = 35) => cause = "TaxiGround"

\* a record below the ramp threshold with a taxi time between the two taxi
\* thresholds, classified
C12_Witness ==
    \E r \in CausedRows :
        /\ r.Ramp_Delay = 10
        /\ r.Taxi_Time = 27
        /\ r.Delay_Cause = "RampGate"

\* the record carries no precomputed taxi time: no ATD-RAM column, or a
\* null cell in it
NoPrecomputedTaxi(r) == "ATD-RAM" \notin DOMAIN r \/ isna(r["ATD-RAM"])

\* C13: a record whose scheduled, ramp-out and departure timestamps all
\* resolved and that has no precomputed ATD-RAM value has total_delay =
\* ramp_delay + taxi_time with taxi_time in [0, 1440), hence total_delay >=
\* ramp_delay; a record whose ramp-out did not resolve but whose departure
\* did has total_delay in [0, 1440), the departure being on the scheduled
\* day, or on the next day when its clock time is earlier than the
\* scheduled clock time.
C13_DelayDecomposition ==
    \A r \in MetricRows :
        /\ (/\ notna(r.STD_Full) /\ notna(r.RAM_Full) /\ notna(r.ATD_Full)
            /\ NoPrecomputedTaxi(r)) =>
              /\ r.Total_Delay = r.Ramp_Delay + r.Taxi_Time
              /\ r.Taxi_Time \in 0..1439
              /\ r.Total_Delay >= r.Ramp_Delay
        /\ (notna(r.STD_Full) /\ isna(r.RAM_Full) /\ notna(r.ATD_Full)) =>
              /\ r.Total_Delay \in 0..1439
              /\ DayOffset(r.ATD_Full, r.STD_Full) =
                    IF MinuteOfDay(r.ATD_Full.hour, r.ATD_Full.minute)
                          < MinuteOfDay(r.STD_Full.hour, r.STD_Full.minute)
                    THEN 1 ELSE 0

\* a record pushed back before its scheduled time whose departure clock
\* time precedes the ramp-out: the three timestamps resolved, the ramp
\* delay is negative and the taxi time runs into the next day
C13_Witness ==
    \E r \in MetricRows :
        /\ notna(r.STD_Full) /\ notna(r.RAM_Full) /\ notna(r.ATD_Full)
        /\ NoPrecomputedTaxi(r)
        /\ r.Ramp_Delay < 0
        /\ DayOffset(r.ATD_Full, r.RAM_Full) = 1
        /\ r.Total_Delay = r.Ramp_Delay + r.Taxi_Time

\* the rows of the RAMP table with their delay (after line 157)
DelayRows == {r \in {df_ramp[i] : i \in 1..Len(df_ramp)} : "Delay_Min" \in DOMAIN r}

\* the cell reads as two integers separated by a colon
ReadsAsPair(cell) == DOMAIN cell = {"h", "m"}

\* C14: for valid clock times STD and ATD (hours 0-23, minutes 0-59) the
\* delay is a number in [-720, 720] congruent modulo 1440 to the ATD
\* minute of day minus the STD minute of day, a difference below -720
\* raised by 1440 and one above 720 lowered by 1440; when STD or ATD does
\* not split into two integers the delay is None.
C14_DelayMinutes ==
    \A r \in DelayRows :
        /\ (IsClock(r.STD) /\ IsClock(r.ATD)) =>
              LET d == MinuteOfDay(r.ATD.h, r.ATD.m) - MinuteOfDay(r.STD.h, r.STD.m)
              IN  /\ IsFloat(r.Delay_Min)
                  /\ r.Delay_Min.num \in -720..720
                  /\ (r.Delay_Min.num - d) % 1440 = 0
                  /\ d < -720 => r.Delay_Min.num = d + 1440
                  /\ d > 720 => r.Delay_Min.num = d - 1440
                  /\ d \in -720..720 => r.Delay_Min.num = d
        /\ (~ReadsAsPair(r.STD) \/ ~ReadsAsPair(r.ATD)) => r.Delay_Min = None

\* a departure at midnight scheduled a minute past noon: the difference of
\* -721 is raised to 719
C14_Witness ==
    \E r \in DelayRows :
        /\ r.STD = Clock(12, 1) /\ r.ATD = Clock(0, 0)
        /\ r.Delay_Min = Num(719)

====
